---- MODULE Spec2Model ----
(***************************************************************************)
(* CircularBuffer<TYPE, LEN> of src/CircularBuffer.h with TYPE = int.      *)
(*                                                                         *)
(* Program state: data (TYPE data[LEN]), counter (the cursor), total (the  *)
(* element count).  History state, read by the properties only: origin     *)
(* (whether an append has ever written the slot), appended (every value    *)
(* passed to append, in order), ctor (the constructor that built the       *)
(* object) and lastOp (the operation that produced the current state; for  *)
(* the constructor call with its arguments, for an indexed write with its  *)
(* index).                                                                 *)
(*                                                                         *)
(* iter is the caller's range-based for loop over the buffer: its phase,   *)
(* the offsets of the running iterator and of the end iterator, the values *)
(* yielded so far, and what the previous loop yielded when two loops run   *)
(* back to back.                                                           *)
(*                                                                         *)
(* LEN is an unsigned int, so every expression that mixes an int with LEN  *)
(* is evaluated in unsigned 32-bit arithmetic: a negative int is first     *)
(* increased by 2^32.  The model keeps this for index % LEN (ToUnsignedMod)*)
(* and works with LEN and counters far below 2^31, where the other         *)
(* expressions do not wrap.                                                *)
(***************************************************************************)
EXTENDS Integers, Sequences, FiniteSets, TLC

VARIABLES data, counter, total, origin, appended, ctor, lastOp, iter

vars == <<data, counter, total, origin, appended, ctor, lastOp, iter>>

\* ---------------------------------------------------------------- bounds

\* The template parameter LEN (the capacity).
LEN == 3

\* At most MaxAppends values are ever appended (constructor included) when
\* every operation is in use, at most MaxAppendsOnly when append is the only
\* operation.
MaxAppends == 4

MaxAppendsOnly == 7

\* TYPE values.  The buffer stores and copies values and compares them only
\* in minimum() and maximum(), so two values tell every slot from another.
Values == {1, 2}

Slots == 0..(LEN - 1)

\* Indexed reads are tried for every int in Indices, indexed writes for
\* every int in WriteIndices: below zero, in range and past the end.
Indices == (0 - 2 * LEN - 1)..(2 * LEN + 1)

WriteIndices == {0 - 1, 1, LEN}

\* ------------------------------------------------ arithmetic of the source

\* 2^32 mod LEN, computed without leaving 32-bit integers.
Pow32ModLEN == (((2^16) % LEN) * ((2^16) % LEN)) % LEN

\* index % LEN taken on the int, as if LEN were signed: the remainder has
\* the sign of index.
ToSignedRem(index) ==
    IF index >= 0
    THEN index % LEN
    ELSE 0 - ((0 - index) % LEN)

\* index % LEN for an int index and the unsigned LEN: the usual arithmetic
\* conversions turn index into index mod 2^32 before the remainder is taken.
ToUnsignedMod(index) ==
    IF index >= 0
    THEN index % LEN
    ELSE ((index % LEN) + Pow32ModLEN) % LEN

\* append without the wrap: counter = counter + 1.
AppendCounterNoWrap(c) == c + 1

\* counter = (counter + 1) % LEN in append.
AppendCounter(c) == (c + 1) % LEN

\* append without the saturation: ++total.
AppendTotalNoCap(t) == t + 1

\* append that starts the count over once the buffer is full.
AppendTotalRestart(t) == IF t < LEN THEN t + 1 ELSE 1

\* if (total < LEN) ++total in append.
AppendTotal(t) == IF t < LEN THEN t + 1 ELSE t

\* prev without the + LEN: counter = (counter - 1) % LEN, where counter - 1
\* is the int -1 at counter 0 and is converted to unsigned.
PrevCounterNoLEN(c) == ToUnsignedMod(c - 1)

\* counter = (counter + LEN - 1) % LEN in prev.
PrevCounter(c) == (c + LEN - 1) % LEN

\* next without the wrap: counter = counter + 1.
NextCounterNoWrap(c) == c + 1

\* counter = (counter + 1) % LEN in next.
NextCounter(c) == (c + 1) % LEN

\* ------------------------------------------------------------ read access

\* TYPE operator[](const int index) const
Get(index) == data[ToUnsignedMod(index)]

\* int index() const
index == counter

\* TYPE& current(), read
current == data[counter]

\* int count() const
count == total

\* begin() that ignores total and starts a whole lap before end().
BeginOffsetWholeLap(c, t) == c + LEN

\* The offset begin() hands to the iterator.
BeginOffset(c, t) == c + LEN + LEN - t

\* The offset end() hands to the iterator.
EndOffset(c) == c + LEN + LEN

\* iterator::operator* without the % LEN: ptr[offset].
DerefSlotNoWrap(offset) == offset

\* iterator::operator*: the slot an iterator at this offset reads.
DerefSlot(offset) == ToUnsignedMod(offset)

RECURSIVE IterSlotsFrom(_, _)
\* for (it = from; it != to; ++it): the slots read, in order.
IterSlotsFrom(from, to) ==
    IF from # to
    THEN <<DerefSlot(from)>> \o IterSlotsFrom(from + 1, to)
    ELSE <<>>

\* The slots a range-based for over the buffer reads, in order.
IterSlots == IterSlotsFrom(BeginOffset(counter, total), EndOffset(counter))

\* The values a range-based for over the buffer yields, in order.
Iterate == LET slots == IterSlots IN [k \in 1..Len(slots) |-> data[slots[k]]]

RECURSIVE MinLoop(_, _, _)
\* for (i = from; i < to; ++i) if (data[i] < value) value = data[i];
MinLoop(from, to, value) ==
    IF from < to
    THEN MinLoop(from + 1, to, IF data[from] < value THEN data[from] ELSE value)
    ELSE value

RECURSIVE MaxLoop(_, _, _)
\* for (i = from; i < to; ++i) if (data[i] > value) value = data[i];
MaxLoop(from, to, value) ==
    IF from < to
    THEN MaxLoop(from + 1, to, IF data[from] > value THEN data[from] ELSE value)
    ELSE value

\* minimum() that stops one slot short: i < LEN - 1.
minimumSkipLast == MinLoop(1, LEN - 1, data[0])

\* TYPE minimum() const
minimum == MinLoop(1, LEN, data[0])

\* maximum() that scans the count() first slots only: i < total.
maximumCounted == MaxLoop(1, total, data[0])

\* TYPE maximum() const
maximum == MaxLoop(1, LEN, data[0])

\* No loop over the buffer is running and none has finished.
NoLoop == [phase |-> "idle", offset |-> 0, end |-> 0, yielded |-> <<>>,
           first |-> <<>>, runs |-> 0]

\* ------------------------------------------------------------ construction

\* A buffer object as the constructors and append see it.
Obj(d, c, t, o, a) == [data |-> d, counter |-> c, total |-> t, origin |-> o, appended |-> a]

\* append that moves the cursor first and then writes.
AppendObjMoveFirst(b, value) ==
    [data     |-> [b.data EXCEPT ![AppendCounter(b.counter)] = value],
     counter  |-> AppendCounter(b.counter),
     total    |-> AppendTotal(b.total),
     origin   |-> [b.origin EXCEPT ![AppendCounter(b.counter)] = "append"],
     appended |-> Append(b.appended, value)]

\* void append(const TYPE value), on an object record.
AppendObj(b, value) ==
    [data     |-> [b.data EXCEPT ![b.counter] = value],
     counter  |-> AppendCounter(b.counter),
     total    |-> AppendTotal(b.total),
     origin   |-> [b.origin EXCEPT ![b.counter] = "append"],
     appended |-> Append(b.appended, value)]

RECURSIVE Populate(_, _)
\* populate(first, args...) / populate(arg): append each argument in order.
Populate(b, args) ==
    IF Len(args) = 1
    THEN AppendObj(b, Head(args))
    ELSE Populate(AppendObj(b, Head(args)), Tail(args))

\* The member initializers and an untouched data[]: garbage is whatever the
\* storage held, no slot has been appended to.
Fresh(garbage) == Obj(garbage, 0, 0, [s \in Slots |-> "never"], <<>>)

\* CircularBuffer(): data is left as it was.
DefaultCtor(garbage) == Fresh(garbage)

\* A fill constructor that also reports the buffer as full.
FillCtorFull(garbage, default_value) ==
    [Fresh(garbage) EXCEPT !.data = [s \in Slots |-> default_value],
                           !.total = LEN]

\* CircularBuffer(TYPE default_value): every slot is assigned.
FillCtor(garbage, default_value) ==
    [Fresh(garbage) EXCEPT !.data = [s \in Slots |-> default_value]]

\* CircularBuffer(const ARGS&... args): populate(args...).
ListCtor(garbage, args) == Populate(Fresh(garbage), args)

\* Overload resolution for CircularBuffer<TYPE, LEN> b(args...) or b = {args...}.
\* No argument: the default constructor.  One argument of type TYPE: both
\* CircularBuffer(TYPE) and the variadic template are exact matches and the
\* non-template wins.  One argument of another type: the template is the
\* exact match.  Two or more arguments: only the template is viable.
Construct(garbage, args, sameType) ==
    IF Len(args) = 0 THEN DefaultCtor(garbage)
    ELSE IF Len(args) = 1 /\ sameType THEN FillCtor(garbage, Head(args))
    ELSE ListCtor(garbage, args)

\* The constructor the call resolves to.
CtorKind(args, sameType) ==
    IF Len(args) = 0 THEN "default"
    ELSE IF Len(args) = 1 /\ sameType THEN "fill"
    ELSE "list"

ArgLists == UNION {[1..n -> Values] : n \in 0..LEN}

Init ==
    \E garbage \in [Slots -> Values], args \in ArgLists, sameType \in BOOLEAN :
        /\ (Len(args) # 1 => sameType)
        /\ LET b == Construct(garbage, args, sameType) IN
            /\ data = b.data
            /\ counter = b.counter
            /\ total = b.total
            /\ origin = b.origin
            /\ appended = b.appended
        /\ ctor = CtorKind(args, sameType)
        /\ lastOp = [op |-> "ctor", args |-> args]
        /\ iter = NoLoop

\* -------------------------------------------------------------- operations

\* void append(const TYPE value)
append(value) ==
    /\ LET b == AppendObj(Obj(data, counter, total, origin, appended), value) IN
        /\ data' = b.data
        /\ counter' = b.counter
        /\ total' = b.total
        /\ origin' = b.origin
        /\ appended' = b.appended
    /\ lastOp' = [op |-> "append", args |-> <<>>]
    /\ UNCHANGED <<ctor, iter>>

\* void prev()
prev ==
    /\ counter' = PrevCounter(counter)
    /\ lastOp' = [op |-> "prev", args |-> <<>>]
    /\ UNCHANGED <<data, total, origin, appended, ctor, iter>>

\* void next()
next ==
    /\ counter' = NextCounter(counter)
    /\ lastOp' = [op |-> "next", args |-> <<>>]
    /\ UNCHANGED <<data, total, origin, appended, ctor, iter>>

\* An indexed write that counts a slot never appended as a new element.
SetAtCounting(i, value) ==
    /\ data' = [data EXCEPT ![ToUnsignedMod(i)] = value]
    /\ total' = IF origin[ToUnsignedMod(i)] # "append" /\ total < LEN
                THEN total + 1 ELSE total
    /\ lastOp' = [op |-> "set", args |-> <<i>>]
    /\ UNCHANGED <<counter, origin, appended, ctor, iter>>

\* buffer[i] = value through TYPE& operator[](const int index)
SetAt(i, value) ==
    /\ data' = [data EXCEPT ![ToUnsignedMod(i)] = value]
    /\ lastOp' = [op |-> "set", args |-> <<i>>]
    /\ UNCHANGED <<counter, total, origin, appended, ctor, iter>>

\* A current() that refers to the slot written last, data[counter - 1].
SetCurrentLastWritten(value) ==
    /\ data' = [data EXCEPT ![PrevCounter(counter)] = value]
    /\ lastOp' = [op |-> "current", args |-> <<>>]
    /\ UNCHANGED <<counter, total, origin, appended, ctor, iter>>

\* buffer.current() = value through TYPE& current()
SetCurrent(value) ==
    /\ data' = [data EXCEPT ![counter] = value]
    /\ lastOp' = [op |-> "current", args |-> <<>>]
    /\ UNCHANGED <<counter, total, origin, appended, ctor, iter>>

\* for (v : buffer): auto it = buffer.begin(), e = buffer.end().  A second
\* loop may start right after the first, with no operation in between.
IterBegin ==
    /\ iter.phase \in {"idle", "done"}
    /\ iter.runs < 2
    /\ iter' = [iter EXCEPT !.phase = "running",
                            !.offset = BeginOffset(counter, total),
                            !.end = EndOffset(counter),
                            !.yielded = <<>>]
    /\ UNCHANGED <<data, counter, total, origin, appended, ctor, lastOp>>

\* A loop round that reads through the cursor and moves it: current(), next().
IterStepMovingCursor ==
    /\ iter.phase = "running"
    /\ iter.offset # iter.end
    /\ iter' = [iter EXCEPT !.yielded = Append(@, data[counter]),
                            !.offset = @ + 1]
    /\ counter' = NextCounter(counter)
    /\ UNCHANGED <<data, total, origin, appended, ctor, lastOp>>

\* One round of the loop: it != e holds, v = *it is yielded, ++it.
IterStep ==
    /\ iter.phase = "running"
    /\ iter.offset # iter.end
    /\ iter' = [iter EXCEPT !.yielded = Append(@, data[DerefSlot(iter.offset)]),
                            !.offset = @ + 1]
    /\ UNCHANGED <<data, counter, total, origin, appended, ctor, lastOp>>

\* it != e fails: the loop is over.
IterEnd ==
    /\ iter.phase = "running"
    /\ iter.offset = iter.end
    /\ iter' = [iter EXCEPT !.phase = "done",
                            !.runs = @ + 1,
                            !.first = IF iter.runs = 0 THEN iter.yielded ELSE @]
    /\ UNCHANGED <<data, counter, total, origin, appended, ctor, lastOp>>

\* The caller drops what the loops yielded and goes on to use the buffer.
IterDiscard ==
    /\ iter.phase = "done"
    /\ iter' = NoLoop
    /\ UNCHANGED <<data, counter, total, origin, appended, ctor, lastOp>>

\* Every operation, in any order.
Next ==
    \/ \E value \in Values : Len(appended) < MaxAppends /\ append(value)
    \/ prev
    \/ next
    \/ \E i \in WriteIndices, value \in Values : SetAt(i, value)
    \/ \E value \in Values : SetCurrent(value)

Spec == Init /\ [][Next]_vars

\* Appends only.
NextAppend == \E value \in Values : Len(appended) < MaxAppendsOnly /\ append(value)

SpecAppend == Init /\ [][NextAppend]_vars

\* Appends and cursor moves, no write through operator[] or current().
NextMoves ==
    \/ \E value \in Values : Len(appended) < MaxAppends /\ append(value)
    \/ prev
    \/ next

SpecMoves == Init /\ [][NextMoves]_vars

\* Appends, cursor moves and loops over the buffer; the buffer is operated
\* on between loops, not from inside a loop body.
NextIter ==
    \/ \E value \in Values :
          iter = NoLoop /\ Len(appended) < MaxAppends /\ append(value)
    \/ iter = NoLoop /\ next
    \/ IterBegin
    \/ IterStep
    \/ IterEnd
    \/ IterDiscard

SpecIter == Init /\ [][NextIter]_vars

\* ------------------------------------------------------------------ claims

Min(a, b) == IF a <= b THEN a ELSE b

\* The last n elements of s, in order.
LastN(s, n) == SubSeq(s, Len(s) - n + 1, Len(s))

\* C1: after only appends v1..vN to an empty buffer, iteration yields the
\* min(N, LEN) most recently appended values, oldest first.
C1_IterationAfterAppends ==
    Iterate = LastN(appended, Min(Len(appended), LEN))

\* C1 witness: a default-constructed buffer that has been overwritten twice,
\* holding two different values.
C1_Witness ==
    /\ ctor = "default"
    /\ Len(appended) = LEN + 2
    /\ appended[1] # appended[2]
    /\ Iterate[1] # Iterate[LEN]

\* C2: in every state reached by appends and cursor moves, iteration yields
\* the last count() appended values in append order.
C2_IterationAnyCursor ==
    Iterate = LastN(appended, count)

\* C3: get(i) = get(i + LEN) for every int i, negative ones included.  Stated
\* for buffers whose slots have all been assigned (by the fill constructor or
\* by appends), so that every read is of a determinate value.
C3_IndexPeriodic ==
    (ctor = "fill" \/ \A s \in Slots : origin[s] = "append")
        => \A i \in Indices : Get(i) = Get(i + LEN)

\* C4: count() = min(N, LEN), N the number of appends so far (those of the
\* list constructor included), whatever cursor moves and writes came between.
C4_CountIsMinAppends ==
    count = Min(Len(appended), LEN)

\* C4 witness: a fill-constructed buffer, overwritten once, then the cursor
\* moved away from where the appends left it and a slot written.
C4_Witness ==
    /\ ctor = "fill"
    /\ Len(appended) = LEN + 1
    /\ index # Len(appended) % LEN
    /\ lastOp.op = "set"

\* C5: right after construction from a list of N values, 1 <= N <= LEN,
\* count() = N, position() = N mod LEN and iteration yields the list.
C5_ListCtorIsAppends ==
    (lastOp.op = "ctor" /\ Len(lastOp.args) \in 1..LEN)
        => /\ count = Len(lastOp.args)
           /\ index = Len(lastOp.args) % LEN
           /\ Iterate = lastOp.args

\* C6: 0 <= position() < LEN and 0 <= count() <= LEN in every reachable state.
C6_CursorAndCountInRange ==
    /\ 0 <= index /\ index < LEN
    /\ 0 <= count /\ count <= LEN

\* C6 witness: the cursor at the last slot by a move, in a full buffer.
C6_Witness ==
    /\ index = LEN - 1
    /\ count = LEN
    /\ lastOp.op = "next"

\* C7: every append moves position() to (position_before + 1) mod LEN, from
\* LEN - 1 to 0.
C7_AppendAdvancesCursor ==
    [][lastOp'.op = "append"
         => /\ index' = (index + 1) % LEN
            /\ (index = LEN - 1 => index' = 0)]_vars

\* C7 witness: an append has wrapped the cursor to 0 in a buffer holding one
\* element, so the append came after cursor moves.
C7_Witness ==
    /\ lastOp.op = "append"
    /\ index = 0
    /\ count = 1
    /\ Len(appended) = 1

\* C8: next() is undone by prev() and prev() by next(), and both leave data
\* and count() alone.
C8_CursorRoundTrip ==
    [][/\ lastOp'.op = "next"
            => PrevCounter(index') = index /\ data' = data /\ count' = count
       /\ lastOp'.op = "prev"
            => NextCounter(index') = index /\ data' = data /\ count' = count]_vars

\* C8 witness: prev() has wrapped the cursor from 0 to LEN - 1 in a buffer
\* that holds elements.
C8_Witness ==
    /\ lastOp.op = "prev"
    /\ index = LEN - 1
    /\ count > 0
    /\ PrevCounter(NextCounter(index)) = index

\* C9: no step decreases count(), and a full buffer stays full.
C9_CountSaturates ==
    [][count' >= count /\ (count = LEN => count' = LEN)]_vars

\* C9 witness: an append into a buffer that was already full.
C9_Witness ==
    /\ lastOp.op = "append"
    /\ count = LEN
    /\ Len(appended) > LEN

\* C10: on a default-constructed buffer, in every state reached by appends
\* and cursor moves, every slot iteration reads has been written by an append.
C10_IterationReadsAppended ==
    ctor = "default"
        => \A k \in 1..Len(IterSlots) : origin[IterSlots[k]] = "append"

\* C11: for every int index, get(i) reads and set(i, v) writes a slot of
\* data[0 .. LEN - 1]: the slot computed for i is in range, and an indexed
\* write leaves the storage with exactly its LEN slots.
C11_IndexedAccessInStorage ==
    /\ [](\A i \in Indices : ToUnsignedMod(i) \in DOMAIN data)
    /\ [][lastOp'.op = "set"
            => /\ ToUnsignedMod(lastOp'.args[1]) \in DOMAIN data
               /\ DOMAIN data' = Slots]_vars

\* C11 witness: a write through a negative index has landed in a slot.
C11_Witness ==
    /\ lastOp.op = "set"
    /\ lastOp.args[1] < 0
    /\ origin[ToUnsignedMod(lastOp.args[1])] = "never"
    /\ Get(0 - LEN - 1) \in Values

\* The values held by all LEN slots.
AllSlotValues == {data[s] : s \in Slots}

\* C12: minimum() and maximum() are the smallest and largest value over all
\* LEN slots, whatever count() and the cursor are.
C12_MinMaxOverAllSlots ==
    /\ minimum \in AllSlotValues
    /\ \A v \in AllSlotValues : minimum <= v
    /\ maximum \in AllSlotValues
    /\ \A v \in AllSlotValues : v <= maximum

\* C12 witness: a fill-constructed buffer that is not full, the cursor moved,
\* whose maximum and minimum are fill values that iteration does not yield.
C12_Witness ==
    /\ ctor = "fill"
    /\ count = 1
    /\ index # 1
    /\ \A k \in 1..Len(Iterate) : Iterate[k] < maximum
    /\ appended = <<2>>
    /\ minimum = 1

\* C13: right after fill construction with d every slot holds d, position()
\* and count() are 0, iteration yields nothing and get(i) = d for every i.
C13_FillCtor ==
    (lastOp.op = "ctor" /\ ctor = "fill")
        => /\ \A s \in Slots : data[s] = lastOp.args[1]
           /\ index = 0
           /\ count = 0
           /\ Iterate = <<>>
           /\ \A i \in Indices : Get(i) = lastOp.args[1]

\* C13 witness: a buffer just fill-constructed with the value 2.
C13_Witness ==
    /\ lastOp.op = "ctor"
    /\ ctor = "fill"
    /\ lastOp.args = <<2>>
    /\ Get(0 - 1) = 2

\* C14: current() reads get(position()); a write through current() changes
\* no slot but the one at position(); and the next append writes that slot.
C14_CurrentAliasesCursorSlot ==
    /\ [](current = Get(index))
    /\ [][(lastOp'.op = "current"
              => /\ \A s \in Slots \ {index} : data'[s] = data[s]
                 /\ index' = index
                 /\ current' = data'[index])
           /\
           (lastOp'.op = "append"
              => /\ \A s \in Slots \ {index} : data'[s] = data[s]
                 /\ data'[index] = appended'[Len(appended')])]_vars

\* C14 witness: a write through current() has changed the slot at the cursor,
\* with the cursor away from 0 by a move.
C14_Witness ==
    /\ lastOp.op = "current"
    /\ index = LEN - 1
    /\ count = 0
    /\ origin[index] = "never"
    /\ ctor = "default"

\* C15: a loop over the buffer changes neither data nor position() nor
\* count(), and two loops with no operation in between yield the same
\* sequence.
C15_IterationReadOnlyRepeatable ==
    /\ [][iter' # iter
            => data' = data /\ index' = index /\ count' = count]_vars
    /\ []((iter.phase = "done" /\ iter.runs = 2) => iter.yielded = iter.first)

\* C15 witness: two loops back to back over a full buffer that holds two
\* different values, with the cursor moved off 0.
C15_Witness ==
    /\ iter.phase = "done"
    /\ iter.runs = 2
    /\ Len(iter.yielded) = LEN
    /\ iter.yielded[1] # iter.yielded[LEN]
    /\ index # 0

\* The values iteration yields, as a set.
IteratedValues == LET yielded == Iterate IN {yielded[k] : k \in 1..Len(yielded)}

\* C16: whenever count() = LEN, minimum() and maximum() are the smallest and
\* largest of the values iteration yields.
C16_MinMaxOfIterationWhenFull ==
    count = LEN
        => /\ minimum \in IteratedValues
           /\ \A v \in IteratedValues : minimum <= v
           /\ maximum \in IteratedValues
           /\ \A v \in IteratedValues : v <= maximum

\* C16 witness: LEN + 1 appends into an empty buffer, the first one the only
\* small value and overwritten, then the cursor moved: iteration and
\* minimum() agree on the larger value.
C16_Witness ==
    /\ count = LEN
    /\ Len(appended) = LEN + 1
    /\ appended[1] = 1
    /\ \A k \in 2..(LEN + 1) : appended[k] = 2
    /\ lastOp.op = "prev"
    /\ minimum = 2

\* C17: iteration visits exactly count() slots, the slots
\* (position() - count() + k) mod LEN for k = 0 .. count() - 1 in this order.
C17_IterationSlots ==
    LET slots == IterSlots IN
        /\ Len(slots) = count
        /\ \A k \in 0..(count - 1) : slots[k + 1] = (index - count + k) % LEN

\* C17 witness: a buffer that is not full, the cursor moved back past slot 0,
\* so the visited slots wrap around.
C17_Witness ==
    /\ count = 2
    /\ index = 1
    /\ IterSlots = <<LEN - 1, 0>>

\* C18: append(v) changes the slot at the cursor held before the call to v
\* and no other slot; right after it get(position() + LEN - 1) = v.
C18_AppendWritesCursorSlot ==
    [][lastOp'.op = "append"
         => /\ data' = [data EXCEPT ![index] = appended'[Len(appended')]]
            /\ data'[ToUnsignedMod(index' + LEN - 1)] = appended'[Len(appended')]]_vars

\* C18 witness: an append at the last slot, reached by a cursor move, has
\* replaced a different value there.
C18_Witness ==
    /\ lastOp.op = "append"
    /\ index = 0
    /\ Len(appended) = 2
    /\ appended[1] # appended[2]
    /\ Get(index + LEN - 1) = appended[2]
    /\ count = 2

\* C19: set(i, v) with 0 <= i changes no slot but i mod LEN and leaves
\* position(), count() and the slots iteration visits as they were.
C19_IndexedWriteFrame ==
    [][(lastOp'.op = "set" /\ lastOp'.args[1] >= 0)
         => /\ \A s \in Slots \ {lastOp'.args[1] % LEN} : data'[s] = data[s]
            /\ index' = index
            /\ count' = count
            /\ IterSlots' = IterSlots]_vars

\* C19 witness: a write past the end, at index LEN, has given slot 0 a value
\* in a buffer where slot 0 was never appended; iteration does not visit it.
C19_Witness ==
    /\ lastOp.op = "set"
    /\ lastOp.args = <<LEN>>
    /\ origin[0] = "never"
    /\ count = 1
    /\ \A k \in 1..Len(IterSlots) : IterSlots[k] # 0

====
